---- MODULE Spec2Model ----
(***************************************************************************)
(* Model of the Pearl ebook reader's EPUB ingestion pipeline:              *)
(*   EpubParser (parseEpub and its helpers), and the reading view's        *)
(*   content rewriter (processContent).                                    *)
(*                                                                         *)
(* JavaScript strings are sequences of one-character strings, so that      *)
(* substring, prefix and regular-expression operations are computed and    *)
(* not assumed.  An absent attribute (getAttribute returning null) is the  *)
(* one-element sequence Null, which is no character sequence.              *)
(***************************************************************************)
EXTENDS Integers, Sequences, FiniteSets, TLC

\* ------------------------------------------------------------------ bounds
MaxSpine == 3
MaxItems == 2
MaxMeta == 2

\* --------------------------------------------------------- string literals
Null == <<"(null)">>
Undefined == <<"(undefined)">>

ContainerPath == <<"M","E","T","A","-","I","N","F","/","c","o","n","t","a","i","n","e","r",".","x","m","l">>
XhtmlType == <<"a","p","p","l","i","c","a","t","i","o","n","/","x","h","t","m","l","+","x","m","l">>
ImagePrefix == <<"i","m","a","g","e","/">>
CssType == <<"t","e","x","t","/","c","s","s">>
AudioPrefix == <<"a","u","d","i","o","/">>
CoverMarker == <<"c","o","v","e","r","-","i","m","a","g","e">>
DataPrefix == <<"d","a","t","a",":">>
Base64Infix == <<";","b","a","s","e","6","4",",">>
NullText == <<"n","u","l","l">>
ChapterWord == <<"C","h","a","p","t","e","r"," ">>
UnknownTitle == <<"U","n","k","n","o","w","n"," ","T","i","t","l","e">>
UnknownAuthor == <<"U","n","k","n","o","w","n"," ","A","u","t","h","o","r">>
DefaultLanguage == <<"e","n">>

\* ------------------------------------------------------- string operations
\* String.prototype.startsWith
StartsWith(s, pre) ==
  /\ Len(s) >= Len(pre)
  /\ SubSeq(s, 1, Len(pre)) = pre

\* s has t as a substring starting at (1-based) position p
MatchAt(s, t, p) ==
  /\ p >= 1
  /\ p + Len(t) - 1 <= Len(s)
  /\ SubSeq(s, p, p + Len(t) - 1) = t

\* String.prototype.includes
Includes(s, t) == \E p \in 1..(Len(s) + 1) : MatchAt(s, t, p)

\* String.prototype.lastIndexOf(c) + 1: the 1-based position of the last c, 0 when
\* there is none (lastIndexOf returns -1).
LastIndexOf1(s, c) ==
  IF \E p \in 1..Len(s) : s[p] = c
  THEN CHOOSE p \in 1..Len(s) : s[p] = c /\ \A q \in (p + 1)..Len(s) : s[q] # c
  ELSE 0

\* the least and the greatest of a non-empty set of positions
Least(S) == CHOOSE k \in S : \A j \in S : k <= j

Greatest(S) == CHOOSE k \in S : \A j \in S : k >= j

WhiteSpace == {" ", "\n", "\t"}

\* String.prototype.trim
Trim(s) ==
  IF \A p \in 1..Len(s) : s[p] \in WhiteSpace THEN <<>>
  ELSE LET a == CHOOSE p \in 1..Len(s) :
                  s[p] \notin WhiteSpace /\ \A q \in 1..(p - 1) : s[q] \in WhiteSpace
           b == CHOOSE p \in 1..Len(s) :
                  s[p] \notin WhiteSpace /\ \A q \in (p + 1)..Len(s) : s[q] \in WhiteSpace
       IN SubSeq(s, a, b)

DigitChar(d) == <<"0","1","2","3","4","5","6","7","8","9">>[d + 1]

\* Number -> decimal text, as a template literal formats it
RECURSIVE NumberText(_)
NumberText(n) ==
  IF n < 10 THEN <<DigitChar(n)>>
  ELSE Append(NumberText(n \div 10), DigitChar(n % 10))

\* -------------------------------------------------- insertion-ordered Map
\* A JavaScript Map is a sequence of [key, val] entries in insertion order;
\* set() on a present key replaces the value and keeps the entry's place.
MapHas(m, k) == \E p \in 1..Len(m) : m[p].key = k

MapIndex(m, k) == CHOOSE p \in 1..Len(m) : m[p].key = k

MapGet(m, k) == m[MapIndex(m, k)].val

MapSet(m, k, v) ==
  IF MapHas(m, k)
  THEN [m EXCEPT ![MapIndex(m, k)] = [key |-> k, val |-> v]]
  ELSE Append(m, [key |-> k, val |-> v])

MapKeys(m) == {m[p].key : p \in 1..Len(m)}

\* ------------------------------------------------------------ the archive
\* An archive entry: ok is FALSE when reading it (file.async) rejects; text
\* is its text; doc what the XML parser makes of the text; b64 its base64.
MalformedDoc == [type |-> "malformed"]

NoEntry == [ok |-> FALSE, text |-> <<>>, doc |-> MalformedDoc, b64 |-> <<>>]

NotFound == [found |-> FALSE, entry |-> NoEntry]

\* JSZip.file(path) on the JSZip object created by invocation z: null until
\* loadAsync has filled the object, and for a path the archive does not hold.
ZipFile(files, loaded, z, path) ==
  IF z # 0 /\ loaded[z] /\ path \in DOMAIN files[z].entries
  THEN [found |-> TRUE, entry |-> files[z].entries[path]]
  ELSE NotFound

\* ------------------------------------------------------------- findOpfPath
\* containerDoc.querySelector("rootfile")?.getAttribute("full-path") || ""
FullPathOf(doc) ==
  IF doc.type = "container" /\ doc.rootfile /\ doc.fullPath # Null
  THEN doc.fullPath
  ELSE <<>>

\* this.opfPath.substring(0, this.opfPath.lastIndexOf("/") + 1)
OpfDirOf(path) == SubSeq(path, 1, LastIndexOf1(path, "/"))

\* --------------------------------------------------------- extractMetadata
QName(prefix, local) == [prefix |-> prefix, local |-> local]

NoName == QName("", "")

MetaElements(doc) == IF doc.type = "package" THEN doc.meta ELSE <<>>

\* querySelector: the first position, in document order, whose flag is set
\* (flags[p] says whether element p matches the selector); 0 for none
FirstWhere(flags) ==
  IF \E p \in 1..Len(flags) : flags[p]
  THEN CHOOSE p \in 1..Len(flags) : flags[p] /\ \A q \in 1..(p - 1) : ~flags[q]
  ELSE 0

GetMetaContent(doc, name) ==
  LET els == MetaElements(doc)
      ByName == [p \in 1..Len(els) |-> els[p].name = name]
      ByProperty == [p \in 1..Len(els) |-> els[p].property = name]
      ByLocal == [p \in 1..Len(els) |->
                    \/ els[p].tag.local = name.local
                    \/ els[p].tag = QName("", name.local)
                    \/ els[p].tag = name]
      ByTag == [p \in 1..Len(els) |-> els[p].tag.local = name.local]
      e1 == FirstWhere(ByName)
      e2 == IF e1 # 0 THEN e1 ELSE FirstWhere(ByProperty)
      e3 == IF e2 = 0 /\ name.prefix = "dc" THEN FirstWhere(ByLocal) ELSE e2
      e4 == IF e3 = 0 THEN FirstWhere(ByTag) ELSE e3
  IN IF e4 = 0 THEN <<>> ELSE Trim(els[e4].text)

\* a || b on strings: the empty string is falsy
OrElse(a, b) == IF a # <<>> THEN a ELSE b

\* variant with a slip: the defaults are left out
ExtractMetadataNoDefaults(doc) ==
  [title |-> OrElse(GetMetaContent(doc, QName("dc", "title")),
                GetMetaContent(doc, QName("", "title"))),
   author |-> OrElse(GetMetaContent(doc, QName("dc", "creator")),
                GetMetaContent(doc, QName("", "creator"))),
   language |-> OrElse(GetMetaContent(doc, QName("dc", "language")),
                GetMetaContent(doc, QName("", "language"))),
   identifier |-> OrElse(GetMetaContent(doc, QName("dc", "identifier")),
                GetMetaContent(doc, QName("", "identifier")))]

ExtractMetadata(doc) ==
  [title |-> OrElse(GetMetaContent(doc, QName("dc", "title")),
                OrElse(GetMetaContent(doc, QName("", "title")), UnknownTitle)),
   author |-> OrElse(GetMetaContent(doc, QName("dc", "creator")),
                OrElse(GetMetaContent(doc, QName("", "creator")), UnknownAuthor)),
   language |-> OrElse(GetMetaContent(doc, QName("dc", "language")),
                OrElse(GetMetaContent(doc, QName("", "language")), DefaultLanguage)),
   identifier |-> OrElse(GetMetaContent(doc, QName("dc", "identifier")),
                OrElse(GetMetaContent(doc, QName("", "identifier")), <<>>))]

\* --------------------------------------------------------- extractManifest
ManifestElements(doc) == IF doc.type = "package" THEN doc.items ELSE <<>>

RECURSIVE ManifestFrom(_, _, _, _)
ManifestFrom(items, dir, p, m) ==
  IF p > Len(items) THEN m
  ELSE LET item == items[p]
       IN ManifestFrom(items, dir, p + 1,
            IF item.id # "" /\ item.href # <<>>
            THEN MapSet(m, item.id, [href |-> dir \o item.href,
                                     mediaType |-> item.mediaType,
                                     properties |-> item.properties])
            ELSE m)

\* variant with a slip: the href is stored as written, without the package directory
ExtractManifestBareHref(doc, dir) == ManifestFrom(ManifestElements(doc), <<>>, 1, <<>>)

ExtractManifest(doc, dir) == ManifestFrom(ManifestElements(doc), dir, 1, <<>>)

\* ------------------------------------------------------------ extractSpine
SpineElements(doc) == IF doc.type = "package" THEN doc.itemrefs ELSE <<>>

ExtractSpine(doc) == SelectSeq(SpineElements(doc), LAMBDA idref : idref # "")

\* --------------------------------------------------------- extractChapters
\* variant with a slip: the media type of the manifest item is not looked at
IsChapterItemAnyType(mf, id) == MapHas(mf, id)

\* manifestItem && manifestItem.mediaType === "application/xhtml+xml"
IsChapterItem(mf, id) == MapHas(mf, id) /\ MapGet(mf, id).mediaType = XhtmlType

\* the first spine position from `from` on whose entry is loaded (an await);
\* Len(sp) + 1 when the loop runs to its end without one
ChapterSeek(sp, mf, from) ==
  IF \E k \in from..Len(sp) : IsChapterItem(mf, sp[k])
  THEN CHOOSE k \in from..Len(sp) :
         IsChapterItem(mf, sp[k]) /\ \A j \in from..(k - 1) : ~IsChapterItem(mf, sp[j])
  ELSE Len(sp) + 1

HeadingTags == {"h1", "h2", "h3", "title"}

DocElements(doc) == IF doc.type = "markup" THEN doc.elems ELSE <<>>

\* doc.querySelector("h1, h2, h3, title")?.textContent?.trim() || `Chapter ${i + 1}`
\* (i is the 0-based loop index)
TitleOf(doc, i) ==
  LET els == DocElements(doc)
      e == FirstWhere([p \in 1..Len(els) |-> els[p].tag \in HeadingTags])
      t == IF e = 0 THEN <<>> ELSE Trim(els[e].text)
  IN OrElse(t, ChapterWord \o NumberText(i + 1))

\* doc.querySelector("body")?.innerHTML || content
BodyOf(doc, content) ==
  IF doc.type = "markup" /\ doc.inner # Null THEN OrElse(doc.inner, content) ELSE content

\* variant with a slip: order counts from 1 (the N of "Chapter N")
MakeChapterOneBased(id, item, entry, i) ==
  [id |-> id,
   title |-> TitleOf(entry.doc, i),
   href |-> item.href,
   content |-> BodyOf(entry.doc, entry.text),
   order |-> i + 1]

\* variant with a slip: order is left at 0
MakeChapterOrderZero(id, item, entry, i) ==
  [id |-> id,
   title |-> TitleOf(entry.doc, i),
   href |-> item.href,
   content |-> BodyOf(entry.doc, entry.text),
   order |-> 0]

\* the Chapter pushed by loop index i (0-based) for spine id `id`
MakeChapter(id, item, entry, i) ==
  [id |-> id,
   title |-> TitleOf(entry.doc, i),
   href |-> item.href,
   content |-> BodyOf(entry.doc, entry.text),
   order |-> i]

\* getFileContent resolved and parseXml did not throw
ChapterLoads(f) == f.found /\ f.entry.ok /\ f.entry.doc.type # "malformed"

\* -------------------------------------------------------- extractResources
IsResourceType(mt) ==
  \/ StartsWith(mt, ImagePrefix)
  \/ mt = CssType
  \/ StartsWith(mt, AudioPrefix)

MediaTypeText(mt) == IF mt = Null THEN NullText ELSE mt

\* `data:${item.mediaType};base64,${content}`
DataUrl(mt, b64) == DataPrefix \o MediaTypeText(mt) \o Base64Infix \o b64

\* the first manifest position from `from` on whose flag is set (awaits[k]
\* says whether entry k passes the loop's test and its archive entry exists, so
\* that file.async is awaited); Len(awaits) + 1 for none
ItemSeek(awaits, from) ==
  IF \E k \in from..Len(awaits) : awaits[k]
  THEN CHOOSE k \in from..Len(awaits) : awaits[k] /\ \A j \in from..(k - 1) : ~awaits[j]
  ELSE Len(awaits) + 1

IsResourceEntry(e) == IsResourceType(e.val.mediaType)

\* ---------------------------------------------------------- findCoverImage
\* variant with a slip: the two reserved ids are not recognised
IsCoverEntryPropertiesOnly(e) ==
  e.val.properties # Null /\ Includes(e.val.properties, CoverMarker)

\* item.properties?.includes("cover-image") || id === "cover" || id === "cover-image"
IsCoverEntry(e) ==
  \/ (e.val.properties # Null /\ Includes(e.val.properties, CoverMarker))
  \/ e.key = "cover"
  \/ e.key = "cover-image"

\* ------------------------------------------------------------------ errors
FileNotFound(path) == [kind |-> "error", err |-> "File not found", path |-> path]

\* variant with a slip: the catch of findOpfPath does not replace the error
ContainerErrorUnwrapped == FileNotFound(ContainerPath)

ContainerError == [kind |-> "error", err |-> "Invalid EPUB: Could not find container.xml", path |-> <<>>]

InvalidXml == [kind |-> "error", err |-> "Invalid XML content", path |-> <<>>]

ReadError == [kind |-> "error", err |-> "read failed", path |-> <<>>]

ZipError == [kind |-> "error", err |-> "not a zip archive", path |-> <<>>]

NoResult == [kind |-> "none"]

\* ------------------------------------------------- the archives explored
SeqsUpTo(S, n) == UNION {[1..k -> S] : k \in 0..n}

\* the function with the given <<path, entry>> pairs as its graph
EntriesOf(pairs) ==
  [path \in {q[1] : q \in pairs} |-> (CHOOSE q \in pairs : q[1] = path)[2]]

TextEntry(doc) == [ok |-> TRUE, text |-> <<"r">>, doc |-> doc, b64 |-> <<"T">>]

BinaryEntry(b64) == [ok |-> TRUE, text |-> <<"?">>, doc |-> MalformedDoc, b64 |-> b64]

UnreadableEntry == [ok |-> FALSE, text |-> <<>>, doc |-> MalformedDoc, b64 |-> <<>>]

ContainerDoc(rootfile, fullPath) ==
  [type |-> "container", rootfile |-> rootfile, fullPath |-> fullPath]

PackageDoc(meta, items, itemrefs) ==
  [type |-> "package", meta |-> meta, items |-> items, itemrefs |-> itemrefs]

DocA ==
  [type |-> "markup",
   elems |-> <<[tag |-> "title", text |-> <<"T">>], [tag |-> "h1", text |-> <<" ","A"," ">>]>>,
   inner |-> <<"x">>]

DocB == [type |-> "markup", elems |-> <<[tag |-> "p", text |-> <<"b">>]>>, inner |-> Null]

\* an SVG image: well-formed markup that is no content document
DocSvg == [type |-> "markup", elems |-> <<[tag |-> "title", text |-> <<"S">>]>>, inner |-> Null]

Meta1 == <<[tag |-> QName("dc", "title"), name |-> NoName, property |-> NoName, text |-> <<"B">>]>>

Item(id, href, mediaType, properties) ==
  [id |-> id, href |-> href, mediaType |-> mediaType, properties |-> properties]

PngType == <<"i","m","a","g","e","/","p","n","g">>
JpegType == <<"i","m","a","g","e","/","j","p","e","g">>
MpegType == <<"a","u","d","i","o","/","m","p","e","g">>
FontType == <<"f","o","n","t","/","o","t","f">>

ItemC1 == Item("c1", <<"a">>, XhtmlType, Null)
ItemC2 == Item("c2", <<"b">>, XhtmlType, Null)
ItemImg == Item("img", <<"i">>, PngType, <<"n","a","v"," ","c","o","v","e","r","-","i","m","a","g","e">>)

ItemCatalog ==
  {ItemC1, ItemImg,
   Item("cover", <<"j">>, JpegType, Null),
   Item("css", <<"s">>, CssType, <<"n","a","v">>),
   Item("aud", <<"m">>, MpegType, Null),
   Item("cover-image", <<"i">>, Null, Null),
   Item("img", <<"j">>, FontType, Null),
   Item("pic", <<"i">>, JpegType, Null)}

Present(e) == [present |-> TRUE, entry |-> e]

Absent == [present |-> FALSE, entry |-> NoEntry]

TextStatuses == {Absent, Present(UnreadableEntry), Present(TextEntry(MalformedDoc))}

BinaryStatuses == {Absent, Present(UnreadableEntry)}

At(path, slot) == IF slot.present THEN {<<path, slot.entry>>} ELSE {}

MakeArchive(pairs) == [opens |-> TRUE, entries |-> EntriesOf(pairs)]

RootOpf == <<"o">>
DirOpf == <<"p","/","o">>

ContainerSlots ==
  TextStatuses
    \cup {Present(TextEntry(ContainerDoc(FALSE, Null))),
          Present(TextEntry(ContainerDoc(TRUE, Null))),
          Present(TextEntry(ContainerDoc(TRUE, <<>>)))}
    \cup {Present(TextEntry(ContainerDoc(TRUE, path))) : path \in {RootOpf, DirOpf, <<"q">>}}

GoodContainer(path) == Present(TextEntry(ContainerDoc(TRUE, path)))

\* container-level and package-level variety around one small package
PackageArchives ==
  LET pkg == PackageDoc(Meta1,
               <<ItemC1, ItemImg, Item("", <<"i">>, PngType, Null), Item("x", <<>>, PngType, Null)>>,
               <<"", "c1">>)
  IN {MakeArchive(At(ContainerPath, cont) \cup At(opfAt, opf)
                    \cup At(OpfDirOf(opfAt) \o <<"a">>, Present(TextEntry(DocA)))
                    \cup At(OpfDirOf(opfAt) \o <<"i">>, Present(BinaryEntry(<<"A","A">>)))) :
        cont \in ContainerSlots, opfAt \in {RootOpf, DirOpf},
        opf \in TextStatuses \cup {Present(TextEntry(pkg)), Present(TextEntry(DocA))}}

\* every spine up to MaxSpine entries over present, absent and non-XHTML ids
SpineArchives ==
  {MakeArchive(At(ContainerPath, GoodContainer(RootOpf))
                 \cup At(RootOpf, Present(TextEntry(
                        PackageDoc(Meta1, <<ItemC1, ItemC2, ItemImg>>, refs))))
                 \cup At(<<"a">>, a) \cup At(<<"b">>, b)
                 \cup At(<<"i">>, Present(TextEntry(DocSvg)))) :
     refs \in SeqsUpTo({"c1", "c2", "img", "zz"}, MaxSpine),
     a \in TextStatuses \cup {Present(TextEntry(DocA))},
     b \in {Absent, Present(TextEntry(DocB))}}

\* every manifest up to MaxItems items of the catalog
ManifestArchives ==
  {MakeArchive(At(ContainerPath, GoodContainer(DirOpf))
                 \cup At(DirOpf, Present(TextEntry(PackageDoc(Meta1, items, <<"c1">>))))
                 \cup At(<<"p","/","a">>, a)
                 \cup At(<<"p","/","i">>, i) \cup At(<<"p","/","j">>, j)
                 \cup At(<<"p","/","s">>, Present(BinaryEntry(<<"C">>)))
                 \cup At(<<"p","/","m">>, Present(UnreadableEntry))) :
     items \in SeqsUpTo(ItemCatalog, MaxItems),
     a \in {Present(TextEntry(DocA)), Present(TextEntry(MalformedDoc))},
     i \in BinaryStatuses \cup {Present(BinaryEntry(<<"A","A">>))},
     j \in BinaryStatuses \cup {Present(BinaryEntry(<<"B">>))}}

\* metadata elements: <meta name=.. >, <meta property=..>, Dublin Core elements
\* and an element without prefix
MetaElement(tag, name, property, text) ==
  [tag |-> tag, name |-> name, property |-> property, text |-> text]

MetaTag == QName("", "meta")

MetaCatalog ==
  {MetaElement(MetaTag, QName("dc", "title"), NoName, <<>>),
   MetaElement(MetaTag, QName("dc", "title"), NoName, <<"N">>),
   MetaElement(MetaTag, NoName, QName("dc", "title"), <<"P">>),
   MetaElement(MetaTag, QName("", "title"), NoName, <<"M">>),
   MetaElement(QName("dc", "title"), NoName, NoName, <<" ","B","\n">>),
   MetaElement(QName("dc", "title"), NoName, NoName, <<" ">>),
   MetaElement(QName("", "title"), NoName, NoName, <<"L">>),
   MetaElement(QName("dc", "creator"), NoName, NoName, <<"C">>),
   MetaElement(QName("dc", "language"), NoName, NoName, <<"f","r">>),
   MetaElement(QName("dc", "identifier"), NoName, NoName, <<"9">>)}

\* every metadata section up to MaxMeta elements of the catalog
MetadataArchives ==
  {MakeArchive(At(ContainerPath, GoodContainer(RootOpf))
                 \cup At(RootOpf, Present(TextEntry(PackageDoc(meta, <<>>, <<>>))))) :
     meta \in SeqsUpTo(MetaCatalog, MaxMeta)}

\* a file that is no zip archive: loadAsync rejects
NotAZip == [opens |-> FALSE, entries |-> EntriesOf({})]

Archives ==
  PackageArchives \cup SpineArchives \cup ManifestArchives \cup MetadataArchives \cup {NotAZip}

\* ------------------------------------------------------------------- state
Invocations == {1, 2}
Parsers == {1, 2}

VARIABLES
  file,        \* [invocation -> the archive passed to parseEpub]
  self,        \* [invocation -> the EpubParser object it was called on]
  pc,          \* [invocation -> the await it is suspended at]
  zip,         \* [parser -> this.zip: the invocation whose JSZip object it holds, 0 before]
  zipLoaded,   \* [invocation -> its JSZip object has been filled by loadAsync]
  opfPath,     \* [parser -> this.opfPath]
  opfDir,      \* [parser -> this.opfDir]
  pending,     \* [invocation -> the archive entry whose read it awaits]
  metadata,    \* [invocation -> local metadata of parseEpub]
  manifest,    \* [invocation -> local manifest]
  spine,       \* [invocation -> local spine]
  chapters,    \* [invocation -> local chapters of extractChapters]
  resources,   \* [invocation -> local resources of extractResources]
  coverImage,  \* [invocation -> value findCoverImage returned]
  idx,         \* [invocation -> 1-based position of the loop that is suspended]
  ret,         \* [invocation -> what the promise of parseEpub settled to]
  used,        \* [invocation -> JSZip objects (by creating invocation) it looked entries up in]
  opfRead      \* [invocation -> the path it read the package document from]

VARIABLES
  bookResources,     \* book.resources as ReadingInterface holds it
  content,           \* the argument of the latest call of processContent
  processedContent,  \* what that call returned
  calls              \* how many calls of processContent were made

VARIABLES
  storedBooks,          \* the library entries (page state storedBooks)
  parsedBooks,          \* [library book -> its parsed Book, NoBook when not held]
  loadingBooks,         \* the books whose open button is disabled
  currentBook,          \* the Book shown, NoBook in the library view
  isReading,            \* the reading view was asked for
  handler,              \* [library book -> the await its open handler is suspended at]
  currentChapterIndex   \* state of the mounted ReadingInterface

shellVars == <<storedBooks, parsedBooks, loadingBooks, currentBook, isReading, handler,
               currentChapterIndex>>

readerVars == <<bookResources, content, processedContent, calls, shellVars>>

parserVars == <<file, self, pc, zip, zipLoaded, opfPath, opfDir, pending, metadata, manifest,
                spine, chapters, resources, coverImage, idx, ret, used, opfRead>>

vars == <<parserVars, readerVars>>

NoMetadata == [title |-> <<>>, author |-> <<>>, language |-> <<>>, identifier |-> <<>>]

\* the fields and locals as the constructor and the start of a call leave them
InitCommon ==
  /\ zip = [p \in Parsers |-> 0]
  /\ zipLoaded = [i \in Invocations |-> FALSE]
  /\ opfPath = [p \in Parsers |-> <<>>]
  /\ opfDir = [p \in Parsers |-> <<>>]
  /\ pending = [i \in Invocations |-> NotFound]
  /\ metadata = [i \in Invocations |-> NoMetadata]
  /\ manifest = [i \in Invocations |-> <<>>]
  /\ spine = [i \in Invocations |-> <<>>]
  /\ chapters = [i \in Invocations |-> <<>>]
  /\ resources = [i \in Invocations |-> <<>>]
  /\ coverImage = [i \in Invocations |-> Undefined]
  /\ idx = [i \in Invocations |-> 0]
  /\ ret = [i \in Invocations |-> NoResult]
  /\ used = [i \in Invocations |-> {}]
  /\ opfRead = [i \in Invocations |-> Null]

\* null where an EpubBook is expected (page.tsx line 101)
NoBook == [kind |-> "null"]

\* the page before its library is loaded: nothing is open
ShellIdle ==
  /\ storedBooks = <<>>
  /\ parsedBooks = [b \in Invocations |-> NoBook]
  /\ loadingBooks = {}
  /\ currentBook = NoBook
  /\ isReading = FALSE
  /\ handler = [b \in Invocations |-> "none"]
  /\ currentChapterIndex = 0

\* no chapter has been rendered
RewriterIdle ==
  /\ bookResources = <<>>
  /\ content = <<>>
  /\ processedContent = <<>>
  /\ calls = 0

\* the rewriter and the page before any rendering or user action
ReaderIdle ==
  /\ RewriterIdle
  /\ ShellIdle

\* one call of parseEpub, suspended at its first await (the dynamic import)
Init ==
  /\ file \in [Invocations -> Archives]
  /\ file[2] = NotAZip
  /\ self = [i \in Invocations |-> i]
  /\ pc = [i \in Invocations |-> IF i = 1 THEN "import" ELSE "idle"]
  /\ InitCommon
  /\ ReaderIdle

\* the promise of parseEpub rejects with e
Reject(i, e) ==
  /\ ret' = [ret EXCEPT ![i] = e]
  /\ pc' = [pc EXCEPT ![i] = "done"]

\* this.zip.file(path) as invocation i evaluates it now
Lookup(i, loaded, path) == ZipFile(file, loaded, zip[self[i]], path)

\* ---------------------------------------------------------------- parseEpub
\* lines 57-60: after the import, this.zip = new JSZip(); loadAsync(file) is awaited
AfterImport(i) ==
  /\ pc[i] = "import"
  /\ zip' = [zip EXCEPT ![self[i]] = i]
  /\ pc' = [pc EXCEPT ![i] = "load"]
  /\ UNCHANGED <<readerVars, file, self, zipLoaded, opfPath, opfDir, pending, metadata, manifest, spine,
                 chapters, resources, coverImage, idx, ret, used, opfRead>>

\* lines 60-63, 90-92, 102-107: loadAsync settled; findOpfPath starts and awaits
\* getFileContent("META-INF/container.xml")
AfterLoad(i) ==
  /\ pc[i] = "load"
  /\ IF ~file[i].opens
     THEN /\ Reject(i, ZipError)
          /\ UNCHANGED <<zipLoaded, pending, used>>
     ELSE /\ zipLoaded' = [zipLoaded EXCEPT ![i] = TRUE]
          /\ pending' = [pending EXCEPT ![i] = Lookup(i, zipLoaded', ContainerPath)]
          /\ used' = [used EXCEPT ![i] = @ \cup {zip[self[i]]}]
          /\ pc' = [pc EXCEPT ![i] = "container"]
          /\ UNCHANGED ret
  /\ UNCHANGED <<readerVars, file, self, zip, opfPath, opfDir, metadata, manifest, spine,
                 chapters, resources, coverImage, idx, opfRead>>

\* lines 92-99: the container read settled; any throw inside the try becomes the
\* container error, otherwise the fields are set and findOpfPath resolves
AfterContainerRead(i) ==
  /\ pc[i] = "container"
  /\ LET f == pending[i]
     IN IF ~f.found \/ ~f.entry.ok \/ f.entry.doc.type = "malformed"
        THEN /\ Reject(i, ContainerError)
             /\ UNCHANGED <<opfPath, opfDir>>
        ELSE /\ opfPath' = [opfPath EXCEPT ![self[i]] = FullPathOf(f.entry.doc)]
             /\ opfDir' = [opfDir EXCEPT ![self[i]] = OpfDirOf(FullPathOf(f.entry.doc))]
             /\ pc' = [pc EXCEPT ![i] = "opfpath"]
             /\ UNCHANGED ret
  /\ UNCHANGED <<readerVars, file, self, zip, zipLoaded, pending, metadata, manifest, spine,
                 chapters, resources, coverImage, idx, used, opfRead>>

\* lines 63-66, 102-107: findOpfPath resolved; getFileContent(this.opfPath) is awaited
AfterFindOpfPath(i) ==
  /\ pc[i] = "opfpath"
  /\ pending' = [pending EXCEPT ![i] = Lookup(i, zipLoaded, opfPath[self[i]])]
  /\ used' = [used EXCEPT ![i] = @ \cup {zip[self[i]]}]
  /\ opfRead' = [opfRead EXCEPT ![i] = opfPath[self[i]]]
  /\ pc' = [pc EXCEPT ![i] = "opf"]
  /\ UNCHANGED <<readerVars, file, self, zip, zipLoaded, opfPath, opfDir, metadata, manifest, spine,
                 chapters, resources, coverImage, idx, ret>>

\* lines 199-205: the loop of extractChapters runs from position `from` to its
\* next await (a getFileContent), or to its end
ChapterLoop(i, sp, mf, from) ==
  LET k == ChapterSeek(sp, mf, from)
  IN IF k <= Len(sp)
     THEN /\ idx' = [idx EXCEPT ![i] = k]
          /\ pending' = [pending EXCEPT ![i] = Lookup(i, zipLoaded, MapGet(mf, sp[k]).href)]
          /\ used' = [used EXCEPT ![i] = @ \cup {zip[self[i]]}]
          /\ pc' = [pc EXCEPT ![i] = "chapter"]
     ELSE /\ idx' = [idx EXCEPT ![i] = 0]
          /\ pc' = [pc EXCEPT ![i] = "chapters"]
          /\ UNCHANGED <<pending, used>>

\* lines 66-74: the package read settled; a missing or unreadable entry and
\* malformed markup reject the call, otherwise the three views are extracted
\* and extractChapters starts
AfterOpfRead(i) ==
  /\ pc[i] = "opf"
  /\ LET f == pending[i]
     IN IF ~f.found \/ ~f.entry.ok \/ f.entry.doc.type = "malformed"
        THEN /\ Reject(i, IF ~f.found THEN FileNotFound(opfRead[i])
                          ELSE IF ~f.entry.ok THEN ReadError ELSE InvalidXml)
             /\ UNCHANGED <<pending, metadata, manifest, spine, idx, used>>
        ELSE /\ metadata' = [metadata EXCEPT ![i] = ExtractMetadata(f.entry.doc)]
             /\ manifest' = [manifest EXCEPT ![i] = ExtractManifest(f.entry.doc, opfDir[self[i]])]
             /\ spine' = [spine EXCEPT ![i] = ExtractSpine(f.entry.doc)]
             /\ ChapterLoop(i, spine'[i], manifest'[i], 1)
             /\ UNCHANGED ret
  /\ UNCHANGED <<readerVars, file, self, zip, zipLoaded, opfPath, opfDir, chapters, resources,
                 coverImage, opfRead>>

\* variant with a slip: no try/catch around the chapter load, a failing chapter
\* rejects the call
AfterChapterReadNoCatch(i) ==
  /\ pc[i] = "chapter"
  /\ LET f == pending[i]
         k == idx[i]
         id == spine[i][k]
     IN IF ChapterLoads(f)
        THEN /\ chapters' = [chapters EXCEPT ![i] =
                  Append(@, MakeChapter(id, MapGet(manifest[i], id), f.entry, k - 1))]
             /\ ChapterLoop(i, spine[i], manifest[i], idx[i] + 1)
             /\ UNCHANGED ret
        ELSE /\ Reject(i, IF ~f.found THEN FileNotFound(MapGet(manifest[i], id).href)
                          ELSE IF ~f.entry.ok THEN ReadError ELSE InvalidXml)
             /\ UNCHANGED <<chapters, idx, pending, used>>
  /\ UNCHANGED <<readerVars, file, self, zip, zipLoaded, opfPath, opfDir, metadata, manifest, spine,
                 resources, coverImage, opfRead>>

\* lines 205-227: a chapter read settled; the chapter is pushed, or the catch
\* drops it, and the loop goes on
AfterChapterRead(i) ==
  /\ pc[i] = "chapter"
  /\ LET f == pending[i]
         k == idx[i]
         id == spine[i][k]
     IN chapters' = [chapters EXCEPT ![i] =
          IF ChapterLoads(f)
          THEN Append(@, MakeChapter(id, MapGet(manifest[i], id), f.entry, k - 1))
          ELSE @]
  /\ ChapterLoop(i, spine[i], manifest[i], idx[i] + 1)
  /\ UNCHANGED <<readerVars, file, self, zip, zipLoaded, opfPath, opfDir, metadata, manifest, spine,
                 resources, coverImage, ret, opfRead>>

\* the test of a loop over the manifest: loop is "resource" (line 236) or
\* "cover" (line 259)
LoopTest(loop, e) == IF loop = "resource" THEN IsResourceEntry(e) ELSE IsCoverEntry(e)

\* lines 235-244 and 258-263: a loop over the manifest runs from position `from`
\* to its next await (file.async of an entry that exists), or to its end; pcWait
\* and pcEnd name the two outcomes
ManifestLoop(i, from, loop, pcWait, pcEnd) ==
  LET mf == manifest[i]
      awaits == [p \in 1..Len(mf) |->
                   LoopTest(loop, mf[p]) /\ Lookup(i, zipLoaded, mf[p].val.href).found]
      k == ItemSeek(awaits, from)
  IN /\ used' = [used EXCEPT ![i] =
                   IF \E j \in from..Len(mf) : LoopTest(loop, mf[j])
                   THEN @ \cup {zip[self[i]]} ELSE @]
     /\ IF k <= Len(mf)
        THEN /\ idx' = [idx EXCEPT ![i] = k]
             /\ pending' = [pending EXCEPT ![i] = Lookup(i, zipLoaded, mf[k].val.href)]
             /\ pc' = [pc EXCEPT ![i] = pcWait]
        ELSE /\ idx' = [idx EXCEPT ![i] = 0]
             /\ pc' = [pc EXCEPT ![i] = pcEnd]
             /\ UNCHANGED pending

\* lines 74-77, 232-244: extractChapters resolved; extractResources starts
AfterChapters(i) ==
  /\ pc[i] = "chapters"
  /\ resources' = [resources EXCEPT ![i] = <<>>]
  /\ ManifestLoop(i, 1, "resource", "resource", "resources")
  /\ UNCHANGED <<readerVars, file, self, zip, zipLoaded, opfPath, opfDir, metadata, manifest, spine,
                 chapters, coverImage, ret, opfRead>>

\* lines 244-251: a resource read settled; it is stored under its href, or the
\* catch drops it, and the loop goes on
AfterResourceRead(i) ==
  /\ pc[i] = "resource"
  /\ LET f == pending[i]
         item == manifest[i][idx[i]].val
     IN resources' = [resources EXCEPT ![i] =
          IF f.entry.ok
          THEN MapSet(@, item.href, DataUrl(item.mediaType, f.entry.b64))
          ELSE @]
  /\ ManifestLoop(i, idx[i] + 1, "resource", "resource", "resources")
  /\ UNCHANGED <<readerVars, file, self, zip, zipLoaded, opfPath, opfDir, metadata, manifest, spine,
                 chapters, coverImage, ret, opfRead>>

\* lines 77-80, 256-263: extractResources resolved; findCoverImage starts
AfterResources(i) ==
  /\ pc[i] = "resources"
  /\ ManifestLoop(i, 1, "cover", "cover", "return")
  /\ UNCHANGED <<readerVars, file, self, zip, zipLoaded, opfPath, opfDir, metadata, manifest, spine,
                 chapters, resources, coverImage, ret, opfRead>>

\* lines 263-272: a cover read settled; its data reference is returned, or the
\* catch logs the failure and the loop goes on
AfterCoverRead(i) ==
  /\ pc[i] = "cover"
  /\ LET f == pending[i]
         item == manifest[i][idx[i]].val
     IN IF f.entry.ok
        THEN /\ coverImage' = [coverImage EXCEPT ![i] = DataUrl(item.mediaType, f.entry.b64)]
             /\ pc' = [pc EXCEPT ![i] = "return"]
             /\ UNCHANGED <<idx, pending, used>>
        ELSE /\ ManifestLoop(i, idx[i] + 1, "cover", "cover", "return")
             /\ UNCHANGED coverImage
  /\ UNCHANGED <<readerVars, file, self, zip, zipLoaded, opfPath, opfDir, metadata, manifest, spine,
                 chapters, resources, ret, opfRead>>

Book(i) ==
  [kind |-> "book",
   metadata |-> metadata[i],
   chapters |-> chapters[i],
   resources |-> resources[i],
   coverImage |-> coverImage[i]]

\* lines 80-87: findCoverImage resolved; the Book is returned
Return(i) ==
  /\ pc[i] = "return"
  /\ ret' = [ret EXCEPT ![i] = Book(i)]
  /\ pc' = [pc EXCEPT ![i] = "done"]
  /\ UNCHANGED <<readerVars, file, self, zip, zipLoaded, opfPath, opfDir, pending, metadata, manifest,
                 spine, chapters, resources, coverImage, idx, used, opfRead>>

Next ==
  \E i \in Invocations :
    \/ AfterImport(i)
    \/ AfterLoad(i)
    \/ AfterContainerRead(i)
    \/ AfterFindOpfPath(i)
    \/ AfterOpfRead(i)
    \/ AfterChapterRead(i)
    \/ AfterChapters(i)
    \/ AfterResourceRead(i)
    \/ AfterResources(i)
    \/ AfterCoverRead(i)
    \/ Return(i)

Spec == Init /\ [][Next]_vars

\* ---------------------------------------------- what an archive holds
\* (read off the archive itself, not off the run)
HasEntry(a, path) == path \in DOMAIN a.entries

LoadsAsXml(a, path) ==
  HasEntry(a, path) /\ a.entries[path].ok /\ a.entries[path].doc.type # "malformed"

LoadsAsBinary(a, path) == HasEntry(a, path) /\ a.entries[path].ok

ContainerReadable(a) == a.opens /\ LoadsAsXml(a, ContainerPath)

PackagePathOf(a) ==
  LET doc == a.entries[ContainerPath].doc
  IN IF doc.type = "container" /\ doc.rootfile /\ doc.fullPath # Null THEN doc.fullPath ELSE <<>>

PackageReadable(a) == ContainerReadable(a) /\ LoadsAsXml(a, PackagePathOf(a))

PackageDocOf(a) == a.entries[PackagePathOf(a)].doc

SpineOf(a) == ExtractSpine(PackageDocOf(a))

ManifestOf(a) == ExtractManifest(PackageDocOf(a), OpfDirOf(PackagePathOf(a)))

Finished(i) == pc[i] = "done"

Returned(i) == pc[i] = "done" /\ ret[i].kind = "book"

Failed(i) == pc[i] = "done" /\ ret[i].kind = "error"

ContainerMessage == "Invalid EPUB: Could not find container.xml"

\* C1: an archive without the entry META-INF/container.xml makes parseEpub fail
\* with the container error, and no Book is returned, whatever else it holds.
C1_MissingContainerFails ==
  \A i \in Invocations :
    (file[i].opens /\ ~HasEntry(file[i], ContainerPath))
      => /\ pc[i] \in {"idle", "import", "load", "container", "done"}
         /\ ret[i].kind # "book"
         /\ Finished(i) => (ret[i].kind = "error" /\ ret[i].err = ContainerMessage)

\* a finished parse of an archive that has a package document and content but no
\* container pointer
C1_Witness ==
  /\ Failed(1)
  /\ file[1].opens
  /\ ~HasEntry(file[1], ContainerPath)
  /\ HasEntry(file[1], DirOpf)
  /\ file[1].entries[DirOpf].doc.type = "package"
  /\ ret[1].err = ContainerMessage

\* C2 (as claimed): a well-formed container document without a root-file element
\* or without a full-path attribute makes the parse fail with the container error.
C2_NoFullPathIsContainerError ==
  \A i \in Invocations :
    (/\ Finished(i)
     /\ ContainerReadable(file[i])
     /\ LET doc == file[i].entries[ContainerPath].doc
        IN doc.type = "container" /\ (~doc.rootfile \/ doc.fullPath = Null))
      => (ret[i].kind = "error" /\ ret[i].err = ContainerMessage)

\* the spine positions (1-based) of an archive whose entry yields a chapter:
\* its manifest item exists with the XHTML media type, and its content loads
\* and parses
Survives(a, k) ==
  LET sp == SpineOf(a)
      mf == ManifestOf(a)
  IN /\ \E p \in 1..Len(mf) : mf[p].key = sp[k] /\ mf[p].val.mediaType = XhtmlType
     /\ LoadsAsXml(a, MapGet(mf, sp[k]).href)

SurvivingPositions(a) == {k \in 1..Len(SpineOf(a)) : Survives(a, k)}

\* C3: with a readable container pointer and package document, parseEpub returns
\* a Book whose chapters are as many as the spine entries that survive; no drop
\* makes it throw.
C3_ChapterCount ==
  \A i \in Invocations :
    (Finished(i) /\ PackageReadable(file[i]))
      => /\ ret[i].kind = "book"
         /\ Len(ret[i].chapters) = Cardinality(SurvivingPositions(file[i]))

\* a returned Book with fewer chapters than spine entries, and at least one
C3_Witness ==
  /\ Returned(1)
  /\ Len(ret[1].chapters) >= 1
  /\ Len(ret[1].chapters) < Len(SpineOf(file[1]))
  /\ \E k \in 1..Len(SpineOf(file[1])) :
       /\ MapHas(ManifestOf(file[1]), SpineOf(file[1])[k])
       /\ MapGet(ManifestOf(file[1]), SpineOf(file[1])[k]).mediaType = XhtmlType
       /\ ~Survives(file[1], k)

\* Array.prototype.indexOf, 0-based: the first index of id in the spine
FirstIndexOf(sp, id) ==
  (CHOOSE k \in 1..Len(sp) : sp[k] = id /\ \A j \in 1..(k - 1) : sp[j] # id) - 1

\* the n-th smallest member of a set of numbers
NthOf(S, n) == CHOOSE k \in S : Cardinality({j \in S : j < k}) = n - 1

C5_OrderIsArrayIndex ==
  \A i \in Invocations :
    Returned(i) =>
      \A j \in 1..Len(ret[i].chapters) : ret[i].chapters[j].order = j - 1

\* C5 (amended): chapters[i].order >= i, the orders increase strictly, and
\* chapters[i].order = i exactly when every spine entry up to the chapter's own
\* yielded a chapter.
C5_OrderAtLeastArrayIndex ==
  \A i \in Invocations :
    Returned(i) =>
      \A j \in 1..Len(ret[i].chapters) :
        LET ch == ret[i].chapters[j]
        IN /\ ch.order >= j - 1
           /\ j > 1 => ret[i].chapters[j - 1].order < ch.order
           /\ ch.order = j - 1 <=> \A k \in 1..(ch.order + 1) : Survives(file[i], k)

\* a Book in which a chapter stands behind a dropped spine entry, and one in front
C5_Witness ==
  /\ Returned(1)
  /\ Len(ret[1].chapters) >= 2
  /\ ret[1].chapters[1].order = 0
  /\ ret[1].chapters[2].order > 1

\* the manifest item elements of an archive that end up registered: those with
\* an id and an href that no later such element with the same id replaces
RegisteredItems(a) ==
  LET items == ManifestElements(PackageDocOf(a))
      Complete(p) == items[p].id # "" /\ items[p].href # <<>>
  IN {p \in 1..Len(items) :
        /\ Complete(p)
        /\ \A q \in (p + 1)..Len(items) : ~(Complete(q) /\ items[q].id = items[p].id)}

\* the package-directory-relative hrefs of the registered items of a resource
\* media type whose archive entry loads
LoadedResourceHrefs(a) ==
  LET items == ManifestElements(PackageDocOf(a))
      dir == OpfDirOf(PackagePathOf(a))
      Qualifies(mt) ==
        \/ StartsWith(mt, <<"i","m","a","g","e","/">>)
        \/ mt = <<"t","e","x","t","/","c","s","s">>
        \/ StartsWith(mt, <<"a","u","d","i","o","/">>)
  IN {dir \o items[p].href :
        p \in {q \in RegisteredItems(a) :
                 Qualifies(items[q].mediaType) /\ LoadsAsBinary(a, dir \o items[q].href)}}

\* C6: the keys of the returned resources are exactly the directory-relative
\* hrefs of the manifest items of an image, style or audio type that loaded,
\* and no key occurs twice.
C6_ResourceKeys ==
  \A i \in Invocations :
    Returned(i) =>
      LET res == ret[i].resources
      IN /\ {res[p].key : p \in 1..Len(res)} = LoadedResourceHrefs(file[i])
         /\ \A p, q \in 1..Len(res) : res[p].key = res[q].key => p = q

\* a Book with a resource under a directory-relative key, while the other
\* manifest item, an audio file, failed to load
C6_Witness ==
  /\ Returned(1)
  /\ \E p \in 1..Len(ret[1].resources) : ret[1].resources[p].key = <<"p","/","i">>
  /\ \E p \in 1..Len(ManifestOf(file[1])) :
       /\ ManifestOf(file[1])[p].val.mediaType = MpegType
       /\ ~MapHas(ret[1].resources, ManifestOf(file[1])[p].val.href)
  /\ Len(ManifestOf(file[1])) = 2

\* the manifest positions, in the manifest's enumeration order, that match a
\* cover rule
CoverCandidates(a) ==
  LET mf == ManifestOf(a)
  IN {p \in 1..Len(mf) :
        \/ (mf[p].val.properties # Null
              /\ \E n \in 1..Len(mf[p].val.properties) :
                   MatchAt(mf[p].val.properties, <<"c","o","v","e","r","-","i","m","a","g","e">>, n))
        \/ mf[p].key \in {"cover", "cover-image"}}

CoverOf(a, p) ==
  LET item == ManifestOf(a)[p].val
  IN DataUrl(item.mediaType, a.entries[item.href].b64)

\* C7 (as claimed): only the first matching manifest item is used: the cover is
\* its data reference when it loads, and there is no cover when it fails to load.
C7_OnlyFirstCoverMatch ==
  \A i \in Invocations :
    Returned(i) =>
      LET c == CoverCandidates(file[i])
      IN IF c = {} THEN ret[i].coverImage = Undefined
         ELSE IF LoadsAsBinary(file[i], ManifestOf(file[i])[Least(c)].val.href)
              THEN ret[i].coverImage = CoverOf(file[i], Least(c))
              ELSE ret[i].coverImage = Undefined

\* C7 (amended): the cover is the data reference of the first matching manifest
\* item, in manifest order, that loads; there is no cover only when no matching
\* item loads.
C7_FirstLoadableCoverMatch ==
  \A i \in Invocations :
    Returned(i) =>
      LET c == {p \in CoverCandidates(file[i]) :
                  LoadsAsBinary(file[i], ManifestOf(file[i])[p].val.href)}
      IN IF c = {} THEN ret[i].coverImage = Undefined
         ELSE ret[i].coverImage = CoverOf(file[i], Least(c))

\* a Book whose first cover match failed to load and whose second one loaded
C7_Witness ==
  /\ Returned(1)
  /\ CoverCandidates(file[1]) = {1, 2}
  /\ ~LoadsAsBinary(file[1], ManifestOf(file[1])[1].val.href)
  /\ LoadsAsBinary(file[1], ManifestOf(file[1])[2].val.href)
  /\ ret[1].coverImage = CoverOf(file[1], 2)

\* C8: parseEpub rejects exactly when the archive cannot be opened or its
\* container pointer or package document is missing, unreadable or malformed;
\* otherwise it returns a Book, whatever chapters, resources and cover fail.
C8_OnlyPackageLevelFailuresPropagate ==
  \A i \in Invocations :
    Finished(i) =>
      /\ ret[i].kind = "error" <=> ~PackageReadable(file[i])
      /\ ret[i].kind = "book" <=> PackageReadable(file[i])

\* a Book returned although a chapter had malformed markup, a resource entry
\* was missing and the cover entry was missing
C8_Witness ==
  /\ Returned(1)
  /\ \E k \in 1..Len(SpineOf(file[1])) :
       /\ IsChapterItem(ManifestOf(file[1]), SpineOf(file[1])[k])
       /\ HasEntry(file[1], MapGet(ManifestOf(file[1]), SpineOf(file[1])[k]).href)
       /\ ~Survives(file[1], k)
  /\ \E p \in CoverCandidates(file[1]) :
       /\ IsResourceEntry(ManifestOf(file[1])[p])
       /\ ~HasEntry(file[1], ManifestOf(file[1])[p].val.href)
  /\ ret[1].chapters = <<>>
  /\ ret[1].resources = <<>>
  /\ ret[1].coverImage = Undefined

\* ------------------------------------------------ two concurrent calls
ArchiveRoot ==
  MakeArchive(At(ContainerPath, GoodContainer(RootOpf))
                \cup At(RootOpf, Present(TextEntry(PackageDoc(Meta1, <<ItemC1, ItemImg>>, <<"c1">>))))
                \cup At(<<"a">>, Present(TextEntry(DocA)))
                \cup At(<<"i">>, Present(BinaryEntry(<<"A","A">>))))

ArchiveDir ==
  MakeArchive(At(ContainerPath, GoodContainer(DirOpf))
                \cup At(DirOpf, Present(TextEntry(
                       PackageDoc(<<>>, <<ItemC2, Item("cover", <<"j">>, JpegType, Null)>>, <<"c2">>))))
                \cup At(<<"p","/","b">>, Present(TextEntry(DocB)))
                \cup At(<<"p","/","j">>, Present(BinaryEntry(<<"B">>))))

ArchiveNoContainer ==
  MakeArchive(At(RootOpf, Present(TextEntry(PackageDoc(Meta1, <<ItemC1>>, <<"c1">>))))
                \cup At(<<"a">>, Present(TextEntry(DocA))))

ConcurrentArchives == {ArchiveRoot, ArchiveDir, ArchiveNoContainer}

\* two calls of parseEpub, each suspended at its first await, on one EpubParser
\* object or on two
InitConcurrent ==
  /\ file \in [Invocations -> ConcurrentArchives]
  /\ self \in {[i \in Invocations |-> 1], [i \in Invocations |-> i]}
  /\ pc = [i \in Invocations |-> "import"]
  /\ InitCommon
  /\ ReaderIdle

SpecConcurrent == InitConcurrent /\ [][Next]_vars

\* ------------------------------------- what a call returns when run alone
RECURSIVE ChaptersAlone(_, _, _)
ChaptersAlone(a, k, acc) ==
  IF k > Len(SpineOf(a)) THEN acc
  ELSE ChaptersAlone(a, k + 1,
         IF Survives(a, k)
         THEN LET item == MapGet(ManifestOf(a), SpineOf(a)[k])
              IN Append(acc, MakeChapter(SpineOf(a)[k], item, a.entries[item.href], k - 1))
         ELSE acc)

RECURSIVE ResourcesAlone(_, _, _)
ResourcesAlone(a, p, acc) ==
  IF p > Len(ManifestOf(a)) THEN acc
  ELSE ResourcesAlone(a, p + 1,
         LET item == ManifestOf(a)[p].val
         IN IF IsResourceType(item.mediaType) /\ LoadsAsBinary(a, item.href)
            THEN MapSet(acc, item.href, DataUrl(item.mediaType, a.entries[item.href].b64))
            ELSE acc)

CoverAlone(a) ==
  LET c == {p \in CoverCandidates(a) : LoadsAsBinary(a, ManifestOf(a)[p].val.href)}
  IN IF c = {} THEN Undefined ELSE CoverOf(a, Least(c))

ResultAlone(a) ==
  IF ~a.opens THEN ZipError
  ELSE IF ~ContainerReadable(a) THEN ContainerError
  ELSE IF ~HasEntry(a, PackagePathOf(a)) THEN FileNotFound(PackagePathOf(a))
  ELSE IF ~a.entries[PackagePathOf(a)].ok THEN ReadError
  ELSE IF PackageDocOf(a).type = "malformed" THEN InvalidXml
  ELSE [kind |-> "book",
        metadata |-> ExtractMetadata(PackageDocOf(a)),
        chapters |-> ChaptersAlone(a, 1, <<>>),
        resources |-> ResourcesAlone(a, 1, <<>>),
        coverImage |-> CoverAlone(a)]

\* a single call returns what ResultAlone says
AloneAgrees == \A i \in Invocations : Finished(i) => ret[i] = ResultAlone(file[i])

\* C9 (as claimed): under every interleaving of two calls, on one EpubParser
\* object or on two, each call looks entries up only in the JSZip object it
\* created, reads the package document at the path its own container names,
\* and returns what it returns when run alone.
C9_InvocationsIndependent ==
  \A i \in Invocations :
    /\ used[i] \subseteq {i}
    /\ opfRead[i] # Null =>
         (ContainerReadable(file[i]) /\ opfRead[i] = PackagePathOf(file[i]))
    /\ Finished(i) => ret[i] = ResultAlone(file[i])

\* the same statement for calls on different EpubParser objects only
IndependentOnDistinctParsers ==
  self[1] # self[2] => C9_InvocationsIndependent

\* ================================================================ processContent
\* reading-interface.tsx, lines 43-78
Quote == {"\"", "'"}
LineTerminator == {"\n", "\r"}
UpperCase ==
  <<"A","B","C","D","E","F","G","H","I","J","K","L","M","N","O","P","Q","R","S","T","U","V","W",
    "X","Y","Z">>
LowerCase ==
  <<"a","b","c","d","e","f","g","h","i","j","k","l","m","n","o","p","q","r","s","t","u","v","w",
    "x","y","z">>
SrcEquals == <<"s","r","c","=">>
AudioOpen == <<"<","a","u","d","i","o">>
SourceOpen == <<"<","s","o","u","r","c","e">>
ControlsWord == <<"c","o","n","t","r","o","l","s">>
AudioAttributes ==
  <<" ","c","o","n","t","r","o","l","s"," ","p","r","e","l","o","a","d","=","\"","m","e","t","a",
    "d","a","t","a","\""," ","s","t","y","l","e","=","\"","w","i","d","t","h",":"," ","1","0","0",
    "%",";"," ","m","a","x","-","w","i","d","t","h",":"," ","4","0","0","p","x",";"," ","m","a",
    "r","g","i","n",":"," ","1","r","e","m"," ","0",";","\"">>
DataAudioPrefix == DataPrefix \o AudioPrefix

\* the "i" flag: letters are compared without their case
FoldCase(c) ==
  IF \E k \in 1..Len(UpperCase) : UpperCase[k] = c
  THEN LowerCase[CHOOSE k \in 1..Len(UpperCase) : UpperCase[k] = c]
  ELSE c

\* the literal text lit of a pattern matches s at position p
LitAt(s, p, lit) ==
  /\ p >= 1
  /\ p + Len(lit) - 1 <= Len(s)
  /\ \A k \in 1..Len(lit) : FoldCase(s[p + k - 1]) = FoldCase(lit[k])

\* fileName, put into the pattern as it is, matches s at position p: its "."
\* stands for any character but a line terminator, every other character of
\* the names explored stands for itself
FileNameAt(s, p, fileName) ==
  /\ p >= 1
  /\ p + Len(fileName) - 1 <= Len(s)
  /\ \A k \in 1..Len(fileName) :
       IF fileName[k] = "."
       THEN s[p + k - 1] \notin LineTerminator
       ELSE FoldCase(s[p + k - 1]) = FoldCase(fileName[k])

\* the first position from `from` on whose character is in C, 0 when there is none
FirstOf(s, from, C) ==
  LET at == {q \in from..Len(s) : s[q] \in C}
  IN IF at = {} THEN 0 ELSE Least(at)

\* line 48: href.split("/").pop() || href
FileName(href) ==
  LET last == SubSeq(href, LastIndexOf1(href, "/") + 1, Len(href))
  IN IF last = <<>> THEN href ELSE last

\* src=["']([^"']*fileName[^"']*)["'] matched at position p: the position of the
\* closing quote, 0 when there is no match. The first [^"']* is greedy, so the
\* last place for fileName that lets the rest match is taken; inTag asks for a
\* ">" after the closing quote (the rest of the two tag patterns).
SrcClose(s, p, fileName, inTag) ==
  IF LitAt(s, p, SrcEquals) /\ p + 4 <= Len(s) /\ s[p + 4] \in Quote
  THEN LET q1 == FirstOf(s, p + 5, Quote)
           closeAt == [a \in 1..Len(s) |-> FirstOf(s, a + Len(fileName), Quote)]
           places == {a \in (p + 5)..q1 :
                        /\ FileNameAt(s, a, fileName)
                        /\ closeAt[a] # 0
                        /\ inTag => FirstOf(s, closeAt[a] + 1, {">"}) # 0}
       IN IF q1 = 0 \/ places = {} THEN 0 ELSE closeAt[Greatest(places)]
  ELSE 0

\* String.prototype.replace with a global pattern: the matches are taken from
\* left to right, each search starting after the previous match; starts are the
\* positions the pattern matches at, ends[p] the last position of the match at p
\* and reps[p] the text it is replaced by
RECURSIVE ReplaceFrom(_, _, _, _, _)
ReplaceFrom(s, p, starts, ends, reps) ==
  LET later == {q \in starts : q >= p}
  IN IF later = {} THEN SubSeq(s, p, Len(s))
     ELSE LET q == Least(later)
          IN SubSeq(s, p, q - 1) \o reps[q] \o ReplaceFrom(s, ends[q] + 1, starts, ends, reps)

\* the replacement text src="${dataUrl}"
SrcAttribute(dataUrl) == SrcEquals \o <<"\"">> \o dataUrl \o <<"\"">>

\* lines 51-54
ReplaceSrc(s, fileName, dataUrl) ==
  LET ends == [p \in 1..Len(s) |-> SrcClose(s, p, fileName, FALSE)]
      starts == {p \in 1..Len(s) : ends[p] # 0}
      reps == [p \in 1..Len(s) |-> SrcAttribute(dataUrl)]
  IN ReplaceFrom(s, 1, starts, ends, reps)

\* <tag([^>]*?)src=["']([^"']*fileName[^"']*)["']([^>]*?)> matched at position
\* p: where the src attribute starts (the lazy first group takes the first
\* place that lets the rest match), its closing quote and the closing ">";
\* at = 0 when there is no match
TagMatch(s, p, tag, fileName) ==
  IF LitAt(s, p, tag)
  THEN LET from == p + Len(tag)
           gt == FirstOf(s, from, {">"})
           upTo == IF gt = 0 THEN Len(s) ELSE gt - 1
           places == {q \in from..upTo : SrcClose(s, q, fileName, TRUE) # 0}
       IN IF places = {} THEN [at |-> 0, close |-> 0, end |-> 0]
          ELSE LET q == Least(places)
                   c == SrcClose(s, q, fileName, TRUE)
               IN [at |-> q, close |-> c, end |-> FirstOf(s, c + 1, {">"})]
  ELSE [at |-> 0, close |-> 0, end |-> 0]

\* lines 58-61 (tag <audio, attributes appended) and lines 64-67 (tag <source)
ReplaceTag(s, tag, fileName, dataUrl, appended) ==
  LET found == [p \in 1..Len(s) |-> TagMatch(s, p, tag, fileName)]
      starts == {p \in 1..Len(s) : found[p].at # 0}
      ends == [p \in 1..Len(s) |-> found[p].end]
      reps == [p \in 1..Len(s) |->
                 tag \o SubSeq(s, p + Len(tag), found[p].at - 1) \o SrcAttribute(dataUrl)
                     \o SubSeq(s, found[p].close + 1, found[p].end - 1) \o appended \o <<">">>]
  IN ReplaceFrom(s, 1, starts, ends, reps)

\* <audio(?![^>]*controls)([^>]*?)> matched at position p: the position of the
\* closing ">", 0 when there is no match
BareAudioClose(s, p) ==
  IF LitAt(s, p, AudioOpen)
  THEN LET from == p + Len(AudioOpen)
           gt == FirstOf(s, from, {">"})
           upTo == IF gt = 0 THEN Len(s) ELSE gt - 1
       IN IF \E r \in from..upTo : r + Len(ControlsWord) - 1 <= upTo /\ LitAt(s, r, ControlsWord)
          THEN 0 ELSE gt
  ELSE 0

\* lines 72-75
EnsureControls(s) ==
  LET ends == [p \in 1..Len(s) |-> BareAudioClose(s, p)]
      starts == {p \in 1..Len(s) : ends[p] # 0}
      reps == [p \in 1..Len(s) |->
                 AudioOpen \o SubSeq(s, p + Len(AudioOpen), ends[p] - 1) \o AudioAttributes
                     \o <<">">>]
  IN ReplaceFrom(s, 1, starts, ends, reps)

\* lines 47-69: the body of the forEach callback for one resource
RewriteFor(s, href, dataUrl) ==
  LET fileName == FileName(href)
      replaced == ReplaceSrc(s, fileName, dataUrl)
  IN IF StartsWith(dataUrl, DataAudioPrefix)
     THEN ReplaceTag(ReplaceTag(replaced, AudioOpen, fileName, dataUrl, AudioAttributes),
                     SourceOpen, fileName, dataUrl, <<>>)
     ELSE replaced

\* lines 47-69: book.resources.forEach, in the insertion order of the map
RECURSIVE ForEachResource(_, _, _)
ForEachResource(s, res, k) ==
  IF k > Len(res) THEN s
  ELSE ForEachResource(RewriteFor(s, res[k].key, res[k].val), res, k + 1)

\* lines 43-78
ProcessContent(text, res) == EnsureControls(ForEachResource(text, res, 1))

\* ------------------------------------------------ inputs of processContent
MaxResources == 2
MaxCalls == 2

WavType == <<"a","u","d","i","o","/","w","a","v">>

Resource(href, mt, b64) == [key |-> href, val |-> DataUrl(mt, b64)]

\* resources as extractResources stores them; the file names image.png and
\* audio.wav, read as patterns, also match inside data:image/png and
\* data:audio/wav
ResourceCatalog ==
  {Resource(<<"i","/","c",".","j","p","g">>, JpegType, <<"E","E">>),
   Resource(<<"i","/","b",".","p","n","g">>, PngType, <<"B","B">>),
   Resource(<<"i","/","i","m","a","g","e",".","p","n","g">>, PngType, <<"A","A">>),
   Resource(<<"a","/","s",".","m","p","3">>, MpegType, <<"D","D">>),
   Resource(<<"a","/","a","u","d","i","o",".","w","a","v">>, WavType, <<"C","C">>)}

ResourceMaps ==
  {m \in SeqsUpTo(ResourceCatalog, MaxResources) :
     \A p, q \in 1..Len(m) : m[p].key = m[q].key => p = q}

ContentCover == <<"<","i","m","g"," ","s","r","c","=","\"","c",".","j","p","g","\"",">">>
ContentSingleQuote == <<"<","i","m","g"," ","s","r","c","=","'","b",".","p","n","g","'",">">>
ContentAudioWav == <<"<","a","u","d","i","o"," ","s","r","c","=","\"","a","u","d","i","o",".","w","a","v","\"",">","<","/","a","u","d","i","o",">">>
ContentAudioControls == <<"<","a","u","d","i","o"," ","c","o","n","t","r","o","l","s"," ","s","r","c","=","\"","s",".","m","p","3","\"",">","<","/","a","u","d","i","o",">">>
ContentAudioSource == <<"<","a","u","d","i","o",">","<","s","o","u","r","c","e"," ","s","r","c","=","\"","s",".","m","p","3","\"",">","<","/","a","u","d","i","o",">">>
ContentUpperCase == <<"<","A","U","D","I","O"," ","S","R","C","=","\"","S",".","M","P","3","\"",">">>
ContentPlain == <<"<","p",">","x","<","/","p",">">>

Contents ==
  {ContentCover, ContentSingleQuote, ContentAudioWav, ContentAudioControls,
   ContentAudioSource, ContentUpperCase, ContentPlain}

\* a book is open in the reading interface and no call of parseEpub is running
InitRewrite ==
  /\ file = [i \in Invocations |-> NotAZip]
  /\ self = [i \in Invocations |-> i]
  /\ pc = [i \in Invocations |-> "idle"]
  /\ InitCommon
  /\ bookResources \in ResourceMaps
  /\ content \in Contents
  /\ processedContent = <<>>
  /\ calls = 0
  /\ ShellIdle

\* lines 205-207: the chapter is rendered, processContent(currentChapter.content)
Render ==
  /\ calls = 0
  /\ processedContent' = ProcessContent(content, bookResources)
  /\ calls' = 1
  /\ UNCHANGED <<content, bookResources, shellVars, parserVars>>

\* lines 43-78: processContent is applied to what it returned
ProcessAgain ==
  /\ calls >= 1
  /\ calls < MaxCalls
  /\ content' = processedContent
  /\ processedContent' = ProcessContent(processedContent, bookResources)
  /\ calls' = calls + 1
  /\ UNCHANGED <<bookResources, shellVars, parserVars>>

NextRewrite ==
  \/ Render
  \/ ProcessAgain

SpecRewrite == InitRewrite /\ [][NextRewrite]_vars

\* C10 (as claimed): for every content and every resources map, applying
\* processContent to its own output returns that output unchanged, for image
\* references and for audio elements.
C10_RewriteIdempotent == calls >= 2 => processedContent = content

\* the file name of some resource, read as a pattern, matches inside the data
\* reference of some resource
SelfMatching(res) ==
  \E p, q \in 1..Len(res) :
    \E a \in 1..Len(res[q].val) : FileNameAt(res[q].val, a, FileName(res[p].key))

\* processContent does return its own output unchanged when no file name
\* matches inside a data reference
IdempotentWithoutSelfMatch ==
  (calls >= 2 /\ ~SelfMatching(bookResources)) => processedContent = content

\* ------------------------------------------------ src attributes of a text
\* the positions where a src attribute with a quoted value starts
SrcStarts(s) ==
  {p \in 1..Len(s) :
     LitAt(s, p, SrcEquals) /\ p + 4 <= Len(s) /\ s[p + 4] \in Quote
       /\ FirstOf(s, p + 5, Quote) # 0}

\* the values of the src attributes, from left to right
SrcValues(s) ==
  [n \in 1..Cardinality(SrcStarts(s)) |->
     LET p == NthOf(SrcStarts(s), n)
     IN SubSeq(s, p + 5, FirstOf(s, p + 5, Quote) - 1)]

\* the resources, by position in the map, whose basename the value contains
ResourcesNamedIn(v, res) == {k \in 1..Len(res) : Includes(v, FileName(res[k].key))}

\* C11 (as claimed): after one pass of processContent every src attribute whose
\* original value contains the basename of a resource holds exactly the data
\* reference of the first such resource in the order of the map; a later
\* resource never overwrites it.
C11_FirstResourceWins ==
  calls = 1 =>
    LET before == SrcValues(content)
        after == SrcValues(processedContent)
    IN \A n \in 1..Len(before) :
         ResourcesNamedIn(before[n], bookResources) # {} =>
           /\ n <= Len(after)
           /\ after[n] = bookResources[Least(ResourcesNamedIn(before[n], bookResources))].val

\* ---------------------------------------------------------------- metadata
\* the fields of the returned metadata and the Dublin Core name of each
FieldLocal ==
  [title |-> "title", author |-> "creator", language |-> "language",
   identifier |-> "identifier"]

Fields == DOMAIN FieldLocal

FieldDefault ==
  [title |-> UnknownTitle, author |-> UnknownAuthor, language |-> DefaultLanguage,
   identifier |-> <<>>]

\* element e is what strategy s finds for the name dc:local: 1 the name
\* attribute, 2 the property attribute, 3 the namespaced local-name scan, 4 the
\* plain-tag lookup
StrategyMatches(e, s, local) ==
  CASE s = 1 -> e.name = QName("dc", local)
    [] s = 2 -> e.property = QName("dc", local)
    [] s = 3 -> e.tag.local = local
    [] s = 4 -> e.tag.local = local

\* the trimmed text of the first element strategy s finds, empty when none
StrategyText(doc, s, local) ==
  LET els == MetaElements(doc)
      hits == {p \in 1..Len(els) : StrategyMatches(els[p], s, local)}
  IN IF hits = {} THEN <<>> ELSE Trim(els[Least(hits)].text)

\* the first non-empty text in the order of the strategies, empty when none
FirstNonEmptyText(doc, local) ==
  LET full == {s \in 1..4 : StrategyText(doc, s, local) # <<>>}
  IN IF full = {} THEN <<>> ELSE StrategyText(doc, Least(full), local)

\* C12 (as claimed): every metadata field of a returned Book is the first
\* non-empty trimmed text the strategies find, tried in the order name
\* attribute, property attribute, local-name scan, plain tag; an earlier
\* strategy that finds an element with empty text does not keep a later one
\* from supplying the value.
C12_FirstNonEmptyStrategyWins ==
  Returned(1) =>
    \A f \in Fields :
      LET claimed == FirstNonEmptyText(PackageDocOf(file[1]), FieldLocal[f])
      IN claimed # <<>> => ret[1].metadata[f] = claimed

\* what the two calls of getMetaContent for a field give (lines 151-154)
Extracted(doc, local) ==
  OrElse(GetMetaContent(doc, QName("dc", local)), GetMetaContent(doc, QName("", local)))

\* the non-empty trimmed texts of the elements any strategy can find for a
\* field, under its dc: name or its plain name
FieldTexts(doc, local) ==
  LET els == MetaElements(doc)
  IN {Trim(els[p].text) :
        p \in {q \in 1..Len(els) :
                 \/ els[q].name \in {QName("dc", local), QName("", local)}
                 \/ els[q].property \in {QName("dc", local), QName("", local)}
                 \/ els[q].tag.local = local}} \ {<<>>}

\* C13: in a returned Book each of title, author, language and identifier is
\* the default when the extraction gives no non-empty text (as it does when no
\* element for the field has any), and is the extracted text otherwise; title,
\* author and language are never empty.
C13_MetadataDefaults ==
  Returned(1) =>
    \A f \in Fields :
      LET doc == PackageDocOf(file[1])
          x == Extracted(doc, FieldLocal[f])
          v == ret[1].metadata[f]
      IN /\ FieldTexts(doc, FieldLocal[f]) = {} => v = FieldDefault[f]
         /\ x = <<>> => v = FieldDefault[f]
         /\ x # <<>> => (v = x /\ v \in FieldTexts(doc, FieldLocal[f]))
         /\ f # "identifier" => v # <<>>

\* a Book whose title and language are the defaults and whose author and
\* identifier were extracted
C13_Witness ==
  /\ Returned(1)
  /\ ret[1].metadata.title = UnknownTitle
  /\ ret[1].metadata.language = DefaultLanguage
  /\ ret[1].metadata.author = <<"C">>
  /\ ret[1].metadata.identifier = <<"9">>

\* ------------------------------------------------------------ chapter titles
TitlePriority == <<"h1", "h2", "h3", "title">>

\* the trimmed text of the first element with the given tag that has any,
\* empty when there is none
CandidateText(doc, tag) ==
  LET els == DocElements(doc)
      hits == {p \in 1..Len(els) : els[p].tag = tag /\ Trim(els[p].text) # <<>>}
  IN IF hits = {} THEN <<>> ELSE Trim(els[Least(hits)].text)

\* the title by priority: level-1 heading, level-2, level-3, title element,
\* wherever each stands; "Chapter N" when none has text
TitleByPriority(doc, n) ==
  LET full == {k \in 1..Len(TitlePriority) : CandidateText(doc, TitlePriority[k]) # <<>>}
  IN IF full = {} THEN ChapterWord \o NumberText(n)
     ELSE CandidateText(doc, TitlePriority[Least(full)])

\* C14 (as claimed): every chapter of a returned Book is titled by the
\* highest-priority candidate with text in its content document (a level-1
\* heading before the title element, wherever they stand), and "Chapter N", N
\* the 1-based spine position, only when no candidate has text.
C14_TitleByPriority ==
  Returned(1) =>
    \A k \in 1..Len(ret[1].chapters) :
      LET ch == ret[1].chapters[k]
      IN ch.title = TitleByPriority(file[1].entries[ch.href].doc, ch.order + 1)

\* C15 (as claimed): in every returned Book no two chapters have the same id,
\* also for a spine that references a manifest id more than once.
C15_ChapterIdsUnique ==
  Returned(1) =>
    \A j, k \in 1..Len(ret[1].chapters) :
      ret[1].chapters[j].id = ret[1].chapters[k].id => j = k

\* ==================================================== the page (EpubReader)
\* part_001: GET /api/books, lines 1-47, and page.tsx, lines 62-582
EpubExtension == <<".","e","p","u","b">>
StudentAuthor == <<"S","t","u","d","e","n","t"," ","A","u","t","h","o","r">>
ListingLanguage == <<"e","n">>
WordChars ==
  {UpperCase[k] : k \in 1..Len(UpperCase)} \cup {LowerCase[k] : k \in 1..Len(LowerCase)}
    \cup {DigitChar(d) : d \in 0..9} \cup {"_"}

\* String.prototype.replace with a string pattern: the first occurrence only
ReplaceFirst(s, t, r) ==
  IF Includes(s, t)
  THEN LET p == Least({q \in 1..(Len(s) + 1) : MatchAt(s, t, q)})
       IN SubSeq(s, 1, p - 1) \o r \o SubSeq(s, p + Len(t), Len(s))
  ELSE s

ToUpperCase(c) ==
  IF \E k \in 1..Len(LowerCase) : LowerCase[k] = c
  THEN UpperCase[CHOOSE k \in 1..Len(LowerCase) : LowerCase[k] = c]
  ELSE c

\* lines 26-27 of the route: the title made from the file name
TitleFromFilename(filename) ==
  LET nameWithoutExt == ReplaceFirst(filename, EpubExtension, <<>>)
      spaced == [p \in 1..Len(nameWithoutExt) |->
                   IF nameWithoutExt[p] \in {"-", "_"} THEN " " ELSE nameWithoutExt[p]]
  IN [p \in 1..Len(spaced) |->
        IF spaced[p] \in WordChars /\ (p = 1 \/ spaced[p - 1] \notin WordChars)
        THEN ToUpperCase(spaced[p]) ELSE spaced[p]]

\* lines 29-39 of the route and 110-113 of the page: the entry of a pre-seeded file
ListedBook(filename) ==
  [name |-> filename,
   metadata |-> [title |-> TitleFromFilename(filename), author |-> StudentAuthor,
                 language |-> ListingLanguage],
   chaptersCount |-> 0,
   isPreloaded |-> TRUE]

\* page lines 188-197: the entry made for an uploaded file once it is parsed
ParsedEntry(filename, book) ==
  [name |-> filename,
   metadata |-> [title |-> book.metadata.title, author |-> book.metadata.author,
                 language |-> book.metadata.language],
   chaptersCount |-> Len(book.chapters),
   isPreloaded |-> FALSE]

\* the library: book 1 is a pre-seeded file, book 2 an uploaded one; the call of
\* parseEpub for book b is invocation b
Preloaded == {1}
BookName == <<<<"a","-","b",".","e","p","u","b">>, <<"c",".","e","p","u","b">>>>

ArchiveTwoChapters ==
  MakeArchive(At(ContainerPath, GoodContainer(RootOpf))
                \cup At(RootOpf, Present(TextEntry(PackageDoc(Meta1, <<ItemC1, ItemC2>>, <<"c1", "c2">>))))
                \cup At(<<"a">>, Present(TextEntry(DocA)))
                \cup At(<<"b">>, Present(TextEntry(DocB))))

ArchiveNoChapters ==
  MakeArchive(At(ContainerPath, GoodContainer(RootOpf))
                \cup At(RootOpf, Present(TextEntry(PackageDoc(<<>>, <<ItemC1>>, <<>>))))
                \cup At(<<"a">>, Present(TextEntry(DocA))))

LibraryArchives == {ArchiveTwoChapters, ArchiveRoot, ArchiveNoChapters, ArchiveNoContainer}

\* the page once initializeLibrary has run (lines 121-146): the listing's entry
\* for the pre-seeded file, the uploaded file not opened yet
InitPage ==
  /\ file \in [Invocations -> LibraryArchives]
  /\ self = [i \in Invocations |-> i]
  /\ pc = [i \in Invocations |-> "idle"]
  /\ InitCommon
  /\ RewriterIdle
  /\ storedBooks = <<ListedBook(BookName[1])>>
  /\ parsedBooks = [b \in Invocations |-> NoBook]
  /\ loadingBooks = {}
  /\ currentBook = NoBook
  /\ isReading = FALSE
  /\ handler = [b \in Invocations |-> "none"]
  /\ currentChapterIndex = 0

\* everything parseEpub keeps, but the position of its calls
parserData == <<file, self, zip, zipLoaded, opfPath, opfDir, pending, metadata, manifest,
                spine, chapters, resources, coverImage, idx, ret, used, opfRead>>

rewriterVars == <<bookResources, content, processedContent, calls>>

\* lines 400-582: the library is rendered only while no book is shown
LibraryShown == currentBook = NoBook

\* lines 341-350: the ReadingInterface is rendered
ReadingShown == currentBook # NoBook /\ isReading

\* reading-interface.tsx line 25 and 192: the render reads currentChapter.title
ChapterShown == ReadingShown /\ currentChapterIndex < Len(currentBook.chapters)

\* `new EpubParser()` and parser.parseEpub(file): the call runs to its first await
StartParse(b) ==
  /\ pc[b] = "idle"
  /\ pc' = [pc EXCEPT ![b] = "import"]
  /\ UNCHANGED parserData

\* lines 226-229: the open button of a pre-seeded entry; the file is fetched
HandleOpenStoredBook(b) ==
  /\ LibraryShown
  /\ b \in Preloaded
  /\ b \notin loadingBooks
  /\ handler[b] = "none"
  /\ pc[b] = "idle"
  /\ handler' = [handler EXCEPT ![b] = "fetch"]
  /\ UNCHANGED <<storedBooks, parsedBooks, loadingBooks, currentBook, isReading,
                 currentChapterIndex, rewriterVars, parserVars>>

\* lines 229-237 and 254-262: the fetch settled; with the file at hand the book
\* is marked loading and parsed, otherwise "Book not available" is shown
FetchSettled(b) ==
  /\ handler[b] = "fetch"
  /\ \E ok \in BOOLEAN :
       IF ok
       THEN /\ loadingBooks' = loadingBooks \cup {b}
            /\ handler' = [handler EXCEPT ![b] = "parse"]
            /\ StartParse(b)
       ELSE /\ handler' = [handler EXCEPT ![b] = "none"]
            /\ UNCHANGED <<loadingBooks, parserVars>>
  /\ UNCHANGED <<storedBooks, parsedBooks, currentBook, isReading, currentChapterIndex,
                 rewriterVars>>

\* lines 237-262: parseEpub of a pre-seeded file settled; the Book is kept and
\* shown and the loading mark removed, or the catch logs the failure
PreloadedParseSettled(b) ==
  /\ b \in Preloaded
  /\ handler[b] = "parse"
  /\ pc[b] = "done"
  /\ IF ret[b].kind = "book"
     THEN /\ parsedBooks' = [parsedBooks EXCEPT ![b] = ret[b]]
          /\ currentBook' = ret[b]
          /\ loadingBooks' = loadingBooks \ {b}
     ELSE UNCHANGED <<parsedBooks, currentBook, loadingBooks>>
  /\ handler' = [handler EXCEPT ![b] = "none"]
  /\ UNCHANGED <<storedBooks, isReading, currentChapterIndex, rewriterVars, parserVars>>

\* lines 171-183 (and 266-275, the entry of an uploaded book): the open button
\* of an uploaded file; a Book already parsed is shown, otherwise it is parsed
HandleOpenBook(b) ==
  /\ LibraryShown
  /\ b \notin Preloaded
  /\ b \notin loadingBooks
  /\ handler[b] = "none"
  /\ IF parsedBooks[b] # NoBook
     THEN /\ currentBook' = parsedBooks[b]
          /\ UNCHANGED <<loadingBooks, handler, parserVars>>
     ELSE /\ loadingBooks' = loadingBooks \cup {b}
          /\ handler' = [handler EXCEPT ![b] = "parse"]
          /\ StartParse(b)
          /\ UNCHANGED currentBook
  /\ UNCHANGED <<storedBooks, parsedBooks, isReading, currentChapterIndex, rewriterVars>>

\* lines 183-223: parseEpub of an uploaded file settled; the Book is kept and
\* shown and its entry added to the library unless one of its name is there;
\* the finally removes the loading mark
ParseSettled(b) ==
  /\ b \notin Preloaded
  /\ handler[b] = "parse"
  /\ pc[b] = "done"
  /\ IF ret[b].kind = "book"
     THEN /\ parsedBooks' = [parsedBooks EXCEPT ![b] = ret[b]]
          /\ currentBook' = ret[b]
          /\ storedBooks' =
               IF \E p \in 1..Len(storedBooks) : storedBooks[p].name = BookName[b]
               THEN storedBooks
               ELSE Append(storedBooks, ParsedEntry(BookName[b], ret[b]))
     ELSE UNCHANGED <<parsedBooks, currentBook, storedBooks>>
  /\ loadingBooks' = loadingBooks \ {b}
  /\ handler' = [handler EXCEPT ![b] = "none"]
  /\ UNCHANGED <<isReading, currentChapterIndex, rewriterVars, parserVars>>

\* lines 333-335 and 341-350, reading-interface.tsx line 20: Start Reading
\* mounts the ReadingInterface, whose index starts at 0
StartReading ==
  /\ currentBook # NoBook
  /\ ~isReading
  /\ isReading' = TRUE
  /\ currentChapterIndex' = 0
  /\ UNCHANGED <<storedBooks, parsedBooks, loadingBooks, currentBook, handler,
                 rewriterVars, parserVars>>

\* lines 337-339 and 345-347: the Library button of the reading view
StopReading ==
  /\ ChapterShown
  /\ isReading' = FALSE
  /\ UNCHANGED <<storedBooks, parsedBooks, loadingBooks, currentBook, handler,
                 currentChapterIndex, rewriterVars, parserVars>>

\* line 358: Back to Library
BackToLibrary ==
  /\ currentBook # NoBook
  /\ ~isReading
  /\ currentBook' = NoBook
  /\ UNCHANGED <<storedBooks, parsedBooks, loadingBooks, isReading, handler,
                 currentChapterIndex, rewriterVars, parserVars>>

\* reading-interface.tsx lines 27-31
GoToNextChapter ==
  /\ ChapterShown
  /\ currentChapterIndex < Len(currentBook.chapters) - 1
  /\ currentChapterIndex' = currentChapterIndex + 1
  /\ UNCHANGED <<storedBooks, parsedBooks, loadingBooks, currentBook, isReading, handler,
                 rewriterVars, parserVars>>

\* reading-interface.tsx lines 33-37
GoToPreviousChapter ==
  /\ ChapterShown
  /\ currentChapterIndex > 0
  /\ currentChapterIndex' = currentChapterIndex - 1
  /\ UNCHANGED <<storedBooks, parsedBooks, loadingBooks, currentBook, isReading, handler,
                 rewriterVars, parserVars>>

\* reading-interface.tsx lines 39-41 and 111-116: an entry of the table of contents
GoToChapter(index) ==
  /\ ChapterShown
  /\ index \in 0..(Len(currentBook.chapters) - 1)
  /\ currentChapterIndex' = index
  /\ UNCHANGED <<storedBooks, parsedBooks, loadingBooks, currentBook, isReading, handler,
                 rewriterVars, parserVars>>

NextPage ==
  \/ Next
  \/ \E b \in Invocations :
       \/ HandleOpenStoredBook(b)
       \/ FetchSettled(b)
       \/ PreloadedParseSettled(b)
       \/ HandleOpenBook(b)
       \/ ParseSettled(b)
  \/ StartReading
  \/ StopReading
  \/ BackToLibrary
  \/ GoToNextChapter
  \/ GoToPreviousChapter
  \/ \E index \in 0..MaxSpine : GoToChapter(index)

SpecPage == InitPage /\ [][NextPage]_vars

\* C16 (as claimed): once a pre-seeded book has been opened and parsed, its
\* library entry holds the parsed title, author and language and the number of
\* chapters instead of the placeholders of the listing.
C16_PreloadedEntryReconciled ==
  \A b \in Preloaded :
    parsedBooks[b] # NoBook =>
      \E p \in 1..Len(storedBooks) :
        /\ storedBooks[p].name = BookName[b]
        /\ storedBooks[p].metadata = ParsedEntry(BookName[b], parsedBooks[b]).metadata
        /\ storedBooks[p].chaptersCount = Len(parsedBooks[b].chapters)

\* C18 (as claimed): whenever the reading view is shown, currentChapterIndex
\* is an index of the chapters of the book shown.
C18_ChapterIndexValid ==
  ReadingShown =>
    (0 <= currentChapterIndex /\ currentChapterIndex < Len(currentBook.chapters))

\* a parse that settled while another book was being read left the index of
\* the book read before: the index is beyond a non-empty chapter list
IndexBeyondReplacedBook ==
  /\ ReadingShown
  /\ Len(currentBook.chapters) > 0
  /\ currentChapterIndex >= Len(currentBook.chapters)

\* ------------------------------------------------ audio tags of a text
\* the opening tags with the given start (<audio or <source), from left to
\* right, each up to its closing ">"
TagTexts(s, tag) ==
  LET starts == {p \in 1..Len(s) : LitAt(s, p, tag) /\ FirstOf(s, p, {">"}) # 0}
  IN [n \in 1..Cardinality(starts) |->
        LET p == NthOf(starts, n) IN SubSeq(s, p, FirstOf(s, p, {">"}))]

\* the value of the src attribute of a tag, empty when it has none
SrcOfTag(t) == IF SrcStarts(t) = {} THEN <<>> ELSE SrcValues(t)[1]

AudioResources(res) == {k \in 1..Len(res) : StartsWith(res[k].val, DataAudioPrefix)}

\* C17 (as claimed): for every audio resource, each <audio> opening tag whose
\* src contains the resource's basename comes out of processContent with the
\* resource's data reference as its src and with the controls, preload and
\* style attributes injected, whether or not it had a controls attribute; each
\* such <source> tag comes out with the data reference as its src.
C17_AudioTagsRewritten ==
  calls = 1 =>
    \A k \in AudioResources(bookResources) :
      LET fileName == FileName(bookResources[k].key)
          dataUrl == bookResources[k].val
          audioIn == TagTexts(content, AudioOpen)
          audioOut == TagTexts(processedContent, AudioOpen)
          sourceIn == TagTexts(content, SourceOpen)
          sourceOut == TagTexts(processedContent, SourceOpen)
      IN /\ \A n \in 1..Len(audioIn) :
              Includes(SrcOfTag(audioIn[n]), fileName) =>
                /\ n <= Len(audioOut)
                /\ SrcOfTag(audioOut[n]) = dataUrl
                /\ Includes(audioOut[n], AudioAttributes)
         /\ \A n \in 1..Len(sourceIn) :
              Includes(SrcOfTag(sourceIn[n]), fileName) =>
                /\ n <= Len(sourceOut)
                /\ SrcOfTag(sourceOut[n]) = dataUrl

====
